---- MODULE Spec2Model ----
(***************************************************************************)
(* A model of MouseViewParser/readers/gorilla.py: the index+file reader    *)
(* (read_file), the folder reader (read_folder) and the per-trial          *)
(* spreadsheet parser (read_single_trial_file).                            *)
(*                                                                         *)
(* One run of the model is one call of one of the three functions; `mode`  *)
(* says which.  Each loop iteration of the function is one step.           *)
(***************************************************************************)
EXTENDS Integers, Sequences, FiniteSets, TLC

VARIABLES
    mode,                 \* "file" | "folder" | "trial": the function called
    status,               \* "start" | "running" | "returned" | "aborted"
    error,                \* the exception that ended the run, "" if none
    header,               \* the header of the table being scanned
    use_public_id,        \* read_file argument
    custom_fields,        \* read_file argument (a list of column names)
    data,                 \* the participant map under construction
    current_participant,  \* local of all three functions
    participant,          \* local of read_file (unbound until first parse)
    viewport,             \* local: viewport returned by the last parse
    trial,                \* local: the trial being built / last built
    line,                 \* the row (read_file line, sheet row) last read
    nread,                \* number of data rows read so far
    listing,              \* read_folder: what os.listdir returned
    all_files,            \* read_folder: the (sorted) list being looped over
    fi                    \* read_folder: number of files looped over so far

vars == <<mode, status, error, header, use_public_id, custom_fields, data,
          current_participant, participant, viewport, trial, line, nread,
          listing, all_files, fi>>

(***************************************************************************)
(* Bounds of the model.                                                    *)
(***************************************************************************)
MaxSheetRows == 3     \* data rows fed to read_single_trial_file
MaxLines == 3         \* data rows of the index file fed to read_file
MaxListing == 3       \* entries of the folder given to read_folder

(***************************************************************************)
(* Python values.  A value is a string, an int, None, or "unbound" (a      *)
(* local variable that was never assigned).  All are records of one shape  *)
(* so that any two of them can be compared.                                *)
(***************************************************************************)
None == [k |-> "none", n |-> 0, s |-> ""]
Unbound == [k |-> "unbound", n |-> 0, s |-> ""]
S(str) == [k |-> "str", n |-> 0, s |-> str]
N(num) == [k |-> "int", n |-> num, s |-> ""]

\* str(value)
PyStr(c) ==
    CASE c.k = "str" -> c.s
      [] c.k = "int" -> ToString(c.n)
      [] OTHER -> "None"

\* The strings float() parses, with their value.
NumStr == [str \in {"12", "7"} |-> IF str = "12" THEN 12 ELSE 7]

\* float(value) succeeds.
CanFloat(c) == c.k = "int" \/ (c.k = "str" /\ c.s \in DOMAIN NumStr)

\* float(value), a whole float written as the integer of the same value.
PyFloat(c) == IF c.k = "int" THEN c.n ELSE NumStr[c.s]

\* An exception: its type and the values its message names; NoError for none.
NoError == [type |-> "", args |-> <<>>]
Raise(type) == [type |-> type, args |-> <<>>]

\* The exception float(value) raises when it fails.
FloatError(c) == Raise(IF c.k = "none" THEN "TypeError" ELSE "ValueError")

\* header.index(name) succeeds.
HasCol(hdr, name) == \E j \in 1..Len(hdr) : hdr[j] = name

\* header.index(name): the first position holding name (1-based here).
Index(hdr, name) ==
    CHOOSE j \in 1..Len(hdr) :
        /\ hdr[j] = name
        /\ \A j2 \in 1..(j - 1) : hdr[j2] # name

\* A Python list, or a numpy array of some dtype, holding the values v.
List(v) == [dtype |-> "list", v |-> v]
Array(v, dtype) == [dtype |-> dtype, v |-> v]

\* numpy.array(a, dtype=dtype): same length, every element cast.  Every
\* float of the model is a small whole number, exact in float32 and float64.
NumpyArray(a, dtype) == Array([j \in 1..Len(a.v) |-> a.v[j]], dtype)

\* A dict: a function from keys to values.  dict[key] = value.
EmptyMap == [key \in {} |-> None]
Put(d, key, value) ==
    [x \in DOMAIN d \cup {key} |-> IF x = key THEN value ELSE d[x]]

\* The strings whose characters the code looks at (file names, responses).
Strings ==
    {"t5.xlsx", "t7.xlsx", "bad.xlsx", "e.xlsx", "gone.xlsx",
     "https://g/t5.xlsx", "x",
     "a.xlsx", "b.XLS", "c.xlsx", "B.xlsx", "d.xlsx", "~$a.xlsx", "n.txt"}

\* The characters of a string.
Chars ==
    [str \in Strings |->
        CASE str = "t5.xlsx" -> <<"t", "5", ".", "x", "l", "s", "x">>
          [] str = "t7.xlsx" -> <<"t", "7", ".", "x", "l", "s", "x">>
          [] str = "bad.xlsx" -> <<"b", "a", "d", ".", "x", "l", "s", "x">>
          [] str = "e.xlsx" -> <<"e", ".", "x", "l", "s", "x">>
          [] str = "gone.xlsx" ->
                <<"g", "o", "n", "e", ".", "x", "l", "s", "x">>
          [] str = "https://g/t5.xlsx" ->
                <<"h", "t", "t", "p", "s", ":", "/", "/", "g", "/", "t", "5",
                 ".", "x", "l", "s", "x">>
          [] str = "x" -> <<"x">>
          [] str = "a.xlsx" -> <<"a", ".", "x", "l", "s", "x">>
          [] str = "b.XLS" -> <<"b", ".", "X", "L", "S">>
          [] str = "c.xlsx" -> <<"c", ".", "x", "l", "s", "x">>
          [] str = "B.xlsx" -> <<"B", ".", "x", "l", "s", "x">>
          [] str = "d.xlsx" -> <<"d", ".", "x", "l", "s", "x">>
          [] str = "~$a.xlsx" -> <<"~", "$", "a", ".", "x", "l", "s", "x">>
          [] OTHER -> <<"n", ".", "t", "x", "t">>]

\* chars[:n]
Take(chars, n) == SubSeq(chars, 1, IF n < Len(chars) THEN n ELSE Len(chars))

\* A message of a trial: a custom-field pair [field, value] or the pair
\* (t, descriptor) of a spreadsheet row.
FieldMsg(field, value) ==
    [kind |-> "field", label |-> field, val |-> value, t |-> 0, desc |-> <<>>]
RowMsg(t, desc) ==
    [kind |-> "row", label |-> "", val |-> None, t |-> t, desc |-> desc]

(***************************************************************************)
(* read_single_trial_file                                                  *)
(***************************************************************************)
SheetHeader ==
    <<"participant_id", "type", "zone_name", "zone_x", "zone_y",
      "zone_width", "zone_height", "time_stamp", "x", "y">>

\* The columns the parser resolves in the header row.
SheetColumns ==
    <<"participant_id", "type", "zone_name", "zone_x", "zone_y",
      "zone_width", "zone_height", "time_stamp", "x", "y">>

\* The value of column `name` in a well-formed row.
Field(hdr, row, name) == row[Index(hdr, name)]

\* (Variant: only the first of the names is looked up before the loop.)
MissingFirstCol(hdr, names) == names # <<>> /\ ~HasCol(hdr, names[1])

\* A header lacks one of the columns in `names` (header.index raises).
MissingCol(hdr, names) == \E j \in 1..Len(names) : ~HasCol(hdr, names[j])

\* The trial dict and the locals at the top of read_single_trial_file.
EmptyTrial == [msg |-> <<>>, time |-> List(<<>>), x |-> List(<<>>), y |-> List(<<>>)]
ParseStart ==
    [err |-> NoError, current_participant |-> None, viewport |-> None,
     trial |-> EmptyTrial]

\* list.append(value)
Append1(a, value) == [a EXCEPT !.v = Append(@, value)]

\* (Variant: a float() that raises is caught and the row's remaining appends
\* are dropped, the scan going on.)
CoordRowCaught(hdr, st, row) ==
    LET t == Field(hdr, row, "time_stamp")
        cx == Field(hdr, row, "x")
        cy == Field(hdr, row, "y")
        tr1 == [st.trial EXCEPT !.time = Append1(@, PyFloat(t))]
        tr2 == [tr1 EXCEPT !.x = Append1(@, PyFloat(cx))]
        tr3 == [tr2 EXCEPT !.y = Append1(@, PyFloat(cy))]
    IN  IF ~CanFloat(t) THEN st
        ELSE IF ~CanFloat(cx) THEN [st EXCEPT !.trial = tr1]
        ELSE IF ~CanFloat(cy) THEN [st EXCEPT !.trial = tr2]
        ELSE [st EXCEPT !.trial = tr3]

\* A row of type "mouseview": three appends, each after a float() that may
\* raise and leave the appends before it done.
CoordRow(hdr, st, row) ==
    LET t == Field(hdr, row, "time_stamp")
        cx == Field(hdr, row, "x")
        cy == Field(hdr, row, "y")
        tr1 == [st.trial EXCEPT !.time = Append1(@, PyFloat(t))]
        tr2 == [tr1 EXCEPT !.x = Append1(@, PyFloat(cx))]
        tr3 == [tr2 EXCEPT !.y = Append1(@, PyFloat(cy))]
    IN  IF ~CanFloat(t) THEN [st EXCEPT !.err = FloatError(t)]
        ELSE IF ~CanFloat(cx)
            THEN [st EXCEPT !.err = FloatError(cx), !.trial = tr1]
        ELSE IF ~CanFloat(cy)
            THEN [st EXCEPT !.err = FloatError(cy), !.trial = tr2]
        ELSE [st EXCEPT !.trial = tr3]

\* (Variant: the zone name is formatted before the type.)
DescriptorZoneFirst(hdr, row) ==
    <<PyStr(Field(hdr, row, "zone_name")), PyStr(Field(hdr, row, "type")),
      PyStr(Field(hdr, row, "zone_x")), PyStr(Field(hdr, row, "zone_y")),
      PyStr(Field(hdr, row, "zone_width")),
      PyStr(Field(hdr, row, "zone_height"))>>

\* "type={};zone={};zone_x={};zone_y={};zone_w={};zone_h={}".format(...):
\* the six formatted values, in the order of the format string.
Descriptor(hdr, row) ==
    <<PyStr(Field(hdr, row, "type")), PyStr(Field(hdr, row, "zone_name")),
      PyStr(Field(hdr, row, "zone_x")), PyStr(Field(hdr, row, "zone_y")),
      PyStr(Field(hdr, row, "zone_width")),
      PyStr(Field(hdr, row, "zone_height"))>>

\* "{}x{}".format(w, h)
ViewportString(w, h) == S(PyStr(w) \o "x" \o PyStr(h))

\* The viewport after a row that is not of type "mouseview".
ScreenViewport(hdr, st, row) ==
    IF /\ Field(hdr, row, "type") = S("zone")
       /\ Field(hdr, row, "zone_name") = S("screen")
    THEN ViewportString(Field(hdr, row, "zone_width"),
                        Field(hdr, row, "zone_height"))
    ELSE st.viewport

\* A row of any other type: one message, and possibly the viewport.
MessageRow(hdr, st, row) ==
    LET t == Field(hdr, row, "time_stamp")
    IN  IF ~CanFloat(t) THEN [st EXCEPT !.err = FloatError(t)]
        ELSE [st EXCEPT
                !.trial.msg = Append(@, RowMsg(PyFloat(t), Descriptor(hdr, row))),
                !.viewport = ScreenViewport(hdr, st, row)]

\* The row's length is the header's.
WellFormed(hdr, row) == Len(row) = Len(hdr)

\* (Variant: every well-formed row sets the participant ID.)
TakeParticipantOfEveryRow(hdr, st, row) == Field(hdr, row, "participant_id")

\* The participant ID after a well-formed row.
TakeParticipant(hdr, st, row) ==
    IF st.current_participant = None
    THEN Field(hdr, row, "participant_id")
    ELSE st.current_participant

\* One iteration of the row loop, for a data row (i > 0).
ReadRow(hdr, st, row) ==
    IF ~WellFormed(hdr, row) THEN st
    ELSE LET st1 == [st EXCEPT
                       !.current_participant = TakeParticipant(hdr, st, row)]
         IN  IF Field(hdr, row, "type") = S("mouseview")
             THEN CoordRow(hdr, st1, row)
             ELSE MessageRow(hdr, st1, row)

\* The row loop over the data rows, stopped by the first exception.
RECURSIVE ReadRows(_, _, _)
ReadRows(hdr, st, rows) ==
    IF rows = <<>> \/ st.err # NoError THEN st
    ELSE ReadRows(hdr, ReadRow(hdr, st, Head(rows)), Tail(rows))

\* read_single_trial_file on a sheet [header, rows]: the locals at the
\* return statement, or at the exception (err # "").
ReadSingleTrialFile(sheet) ==
    IF MissingCol(sheet.header, SheetColumns)
    THEN [ParseStart EXCEPT !.err = Raise("ValueError")]
    ELSE ReadRows(sheet.header, ParseStart, sheet.rows)

(***************************************************************************)
(* The spreadsheet rows of the model.                                      *)
(***************************************************************************)
Row(pid, type, zone, w, h, t, cx, cy) ==
    <<pid, type, zone, N(0), N(0), w, h, t, cx, cy>>

RCoord == Row(N(5), S("mouseview"), None, None, None, N(10), N(3), N(4))
RCoordStr == Row(N(5), S("mouseview"), None, None, None, S("12"), S("7"), N(8))
RCoord7 == Row(N(7), S("mouseview"), None, None, None, N(40), N(1), N(2))
RBadX == Row(N(5), S("mouseview"), None, None, None, N(30), S("abc"), N(4))
RBadY == Row(N(5), S("mouseview"), None, None, None, N(31), N(4), None)
RScreenA == Row(N(5), S("zone"), S("screen"), N(800), N(600), N(0), None, None)
RScreenB == Row(N(5), S("zone"), S("screen"), N(1024), N(768), N(1), None, None)
RScreen7 == Row(N(7), S("zone"), S("screen"), N(320), N(240), N(1), None, None)
RTarget == Row(N(5), S("zone"), S("target"), N(50), N(60), N(2), None, None)
REvent == Row(N(5), S("event"), S("screen"), N(640), N(480), N(3), None, None)
RNoPid == Row(None, S("zone"), S("target"), N(50), N(60), N(4), None, None)
RShort == <<N(7), S("zone"), S("screen"), N(0), N(0), N(111), N(222), N(5)>>

SheetRows ==
    {RCoord, RCoordStr, RCoord7, RBadX, RBadY, RScreenA, RScreenB, RTarget,
     REvent, RNoPid, RShort}

\* A header without the zone_name column.
SheetHeaderNoZone ==
    <<"participant_id", "type", "zone_x", "zone_y", "zone_width",
      "zone_height", "time_stamp", "x", "y">>

SheetHeaders == {SheetHeader, SheetHeaderNoZone}

(***************************************************************************)
(* read_single_trial_file, one row per step (mode = "trial").              *)
(***************************************************************************)
InitTrial ==
    /\ mode = "trial"
    /\ status = "start"
    /\ error = NoError
    /\ header \in SheetHeaders
    /\ use_public_id = FALSE
    /\ custom_fields = <<>>
    /\ data = EmptyMap
    /\ current_participant = None
    /\ participant = Unbound
    /\ viewport = None
    /\ trial = EmptyTrial
    /\ line = <<>>
    /\ nread = 0
    /\ listing = <<>>
    /\ all_files = <<>>
    /\ fi = 0

\* The locals of read_single_trial_file as one record, and back.
Locals == [err |-> error, current_participant |-> current_participant,
           viewport |-> viewport, trial |-> trial]

SetLocals(st) ==
    /\ error' = st.err
    /\ status' = IF st.err = NoError THEN status ELSE "aborted"
    /\ current_participant' = st.current_participant
    /\ viewport' = st.viewport
    /\ trial' = st.trial

\* i == 0: the header row.
TrialHeader ==
    /\ mode = "trial" /\ status = "start"
    /\ IF MissingCol(header, SheetColumns)
       THEN status' = "aborted" /\ error' = Raise("ValueError")
       ELSE status' = "running" /\ error' = NoError
    /\ UNCHANGED <<mode, header, use_public_id, custom_fields, data,
                   current_participant, participant, viewport, trial, line,
                   nread, listing, all_files, fi>>

\* i > 0: one data row.
TrialRow ==
    /\ mode = "trial" /\ status = "running"
    /\ nread < MaxSheetRows
    /\ \E row \in SheetRows :
        /\ line' = row
        /\ SetLocals(ReadRow(header, Locals, row))
    /\ nread' = nread + 1
    /\ UNCHANGED <<mode, header, use_public_id, custom_fields, data,
                   participant, listing, all_files, fi>>

\* The rows are exhausted: return current_participant, viewport, trial.
TrialReturn ==
    /\ mode = "trial" /\ status = "running"
    /\ status' = "returned"
    /\ UNCHANGED <<mode, error, header, use_public_id, custom_fields, data,
                   current_participant, participant, viewport, trial, line,
                   nread, listing, all_files, fi>>

(***************************************************************************)
(* read_file                                                               *)
(***************************************************************************)
IndexHeader ==
    <<"Participant Public ID", "Participant Private ID",
      "Participant Monitor Size", "Participant Viewport Size",
      "Trial Number", "Zone Type", "Response", "cond", "block">>

\* The columns read_file resolves, in the order it resolves them.
IndexColumns ==
    <<"Participant Public ID", "Participant Private ID",
      "Participant Monitor Size", "Participant Viewport Size",
      "Trial Number", "Zone Type", "Response">>

\* The per-trial files in trial_folder_path.
Sheet(rows) == [header |-> SheetHeader, rows |-> rows]
TrialFolder ==
    [fname \in {"t5.xlsx", "t7.xlsx", "bad.xlsx", "e.xlsx"} |->
        CASE fname = "t5.xlsx" -> Sheet(<<RScreenA, RCoord, RTarget>>)
          [] fname = "t7.xlsx" -> Sheet(<<RScreen7, RCoord7>>)
          [] fname = "bad.xlsx" -> Sheet(<<RCoord, RBadX>>)
          [] OTHER -> Sheet(<<>>)]

\* os.path.isfile(os.path.join(trial_folder_path, fname))
IsFile(fname) == fname \in DOMAIN TrialFolder

\* The participant column chosen by use_public_id.
ParticipantColumn(pub) ==
    IF pub THEN "Participant Public ID" ELSE "Participant Private ID"

\* The entry created for a new participant.
NewEntry(hdr, row) ==
    [trials |-> <<>>,
     resolution |-> Field(hdr, row, "Participant Monitor Size"),
     viewport |-> Field(hdr, row, "Participant Viewport Size"),
     public_id |-> Field(hdr, row, "Participant Public ID"),
     private_id |-> Field(hdr, row, "Participant Private ID")]

\* "Check the participant number": a row whose participant differs from
\* the current one makes that participant current and stores a new entry.
EnterParticipant(hdr, pub, fs, row) ==
    LET id == Field(hdr, row, ParticipantColumn(pub))
    IN  IF id # fs.current_participant
        THEN [fs EXCEPT !.current_participant = id,
                        !.data = Put(@, id, NewEntry(hdr, row))]
        ELSE fs

\* line[izone] in ["mouse_view", "mouseview", "MouseView"]
IsMouseView(zone) == zone \in {S("mouse_view"), S("mouseview"), S("MouseView")}

\* line[iresp][:8] == "https://"
IsUrl(resp) ==
    Take(Chars[resp.s], 8) = <<"h", "t", "t", "p", "s", ":", "/", "/">>

\* The trial used when the file cannot be found.
MissingTrial ==
    [msg |-> <<>>, time |-> Array(<<>>, "float32"),
     x |-> Array(<<>>, "float32"), y |-> Array(<<>>, "float32")]

\* for field in custom_fields: trial["msg"].insert(0, [field, line[...]])
RECURSIVE InsertFields(_, _, _, _)
InsertFields(msg, fields, hdr, row) ==
    IF fields = <<>> THEN msg
    ELSE InsertFields(
            <<FieldMsg(Head(fields), Field(hdr, row, Head(fields)))>> \o msg,
            Tail(fields), hdr, row)

\* (Variant: the check reads the column chosen by use_public_id.)
IdentityFieldChosen(hdr, pub, row) == Field(hdr, row, ParticipantColumn(pub))

\* The identity that the file's participant is compared with.
IdentityField(hdr, pub, row) == Field(hdr, row, "Participant Private ID")

\* The exception of the identity check.
IdentityError(fname, current, reported) ==
    [type |-> "Exception", args |-> <<fname, PyStr(current), PyStr(reported)>>]

\* The check and the append that end the iteration of a local file.
CheckAndAppend(hdr, pub, fs, row) ==
    IF fs.participant = Unbound
    THEN [fs EXCEPT !.err = Raise("UnboundLocalError")]
    ELSE IF PyStr(fs.participant) # IdentityField(hdr, pub, row).s
    THEN [fs EXCEPT !.err = IdentityError(Field(hdr, row, "Response").s,
                                          fs.current_participant,
                                          fs.participant)]
    ELSE [fs EXCEPT !.data[fs.current_participant].trials =
                        Append(@, fs.trial)]

\* The locals after the file was loaded, or the empty trial was made.
LoadTrial(fs, fname) ==
    IF IsFile(fname)
    THEN LET r == ReadSingleTrialFile(TrialFolder[fname])
         IN  IF r.err # NoError THEN [fs EXCEPT !.err = r.err]
             ELSE [fs EXCEPT !.participant = r.current_participant,
                             !.viewport = r.viewport,
                             !.trial = r.trial]
    ELSE [fs EXCEPT !.trial = MissingTrial]

\* A MouseView line with a local file name.
LocalFileLine(hdr, pub, fields, fs, row) ==
    LET fs1 == LoadTrial(fs, Field(hdr, row, "Response").s)
        fs2 == [fs1 EXCEPT !.trial.msg = InsertFields(@, fields, hdr, row)]
    IN  IF fs1.err # NoError THEN fs1
        ELSE CheckAndAppend(hdr, pub, fs2, row)

\* What a well-formed line does once its participant is current.
MouseViewLine(hdr, pub, fields, fs, row) ==
    IF ~IsMouseView(Field(hdr, row, "Zone Type")) THEN fs
    ELSE IF IsUrl(Field(hdr, row, "Response")) THEN fs
    ELSE LocalFileLine(hdr, pub, fields, fs, row)

\* (Variant: the participant is checked before the length of the line.)
ReadLineParticipantFirst(hdr, pub, fields, fs, row) ==
    IF ~WellFormed(hdr, row) THEN EnterParticipant(hdr, pub, fs, row)
    ELSE MouseViewLine(hdr, pub, fields, EnterParticipant(hdr, pub, fs, row),
                       row)

\* One iteration of the line loop.
ReadLine(hdr, pub, fields, fs, row) ==
    IF ~WellFormed(hdr, row) THEN fs
    ELSE MouseViewLine(hdr, pub, fields, EnterParticipant(hdr, pub, fs, row),
                       row)

\* "Convert all data lists to NumPy arrays."
ConvertTrial(tr, dtype) ==
    [tr EXCEPT !.time = NumpyArray(@, dtype), !.x = NumpyArray(@, dtype),
               !.y = NumpyArray(@, dtype)]
Convert(d, dtype) ==
    [p \in DOMAIN d |->
        [d[p] EXCEPT !.trials =
            [j \in 1..Len(@) |-> ConvertTrial(@[j], dtype)]]]

(***************************************************************************)
(* The index rows of the model.                                            *)
(***************************************************************************)
IRow(pub, priv, res, zone, resp, cond) ==
    <<S(pub), S(priv), S(res), S(res), S("1"), S(zone), S(resp), S(cond),
      S("b" \o cond)>>

IndexRows ==
    {IRow("A", "5", "800x600", "mouse_view", "t5.xlsx", "c1"),
     IRow("A", "5", "640x480", "MouseView", "gone.xlsx", "c2"),
     IRow("A", "5", "800x600", "mouse_view", "https://g/t5.xlsx", "c1"),
     IRow("A", "5", "640x480", "continue_button", "x", "c1"),
     IRow("A", "5", "800x600", "mouseview", "t7.xlsx", "c1"),
     IRow("A", "5", "800x600", "mouse_view", "bad.xlsx", "c1"),
     IRow("A", "5", "800x600", "mouse_view", "e.xlsx", "c1"),
     IRow("B", "7", "1024x768", "mouse_view", "t7.xlsx", "c2"),
     IRow("B", "7", "1024x768", "mouse_view", "gone.xlsx", "c1"),
     IRow("B", "7", "320x240", "continue_button", "x", "c2"),
     IRow("B", "7", "1024x768", "mouse_view", "https://g/t5.xlsx", "c2"),
     <<S("B"), S("7"), S("1024x768"), S("mouse_view"), S("t7.xlsx")>>}

\* Headers lacking a required column, or the custom field "block".
IndexHeaderNoResponse ==
    <<"Participant Public ID", "Participant Private ID",
      "Participant Monitor Size", "Participant Viewport Size",
      "Trial Number", "Zone Type", "cond", "block">>
IndexHeaderNoBlock ==
    <<"Participant Public ID", "Participant Private ID",
      "Participant Monitor Size", "Participant Viewport Size",
      "Trial Number", "Zone Type", "Response", "cond">>

IndexHeaders == {IndexHeader, IndexHeaderNoResponse, IndexHeaderNoBlock}

CustomFieldLists == {<<>>, <<"cond", "block">>}

(***************************************************************************)
(* read_file, one line per step (mode = "file").                           *)
(***************************************************************************)
InitFile ==
    /\ mode = "file"
    /\ status = "start"
    /\ error = NoError
    /\ header \in IndexHeaders
    /\ use_public_id \in BOOLEAN
    /\ custom_fields \in CustomFieldLists
    /\ data = EmptyMap
    /\ current_participant = None
    /\ participant = Unbound
    /\ viewport = Unbound
    /\ trial = EmptyTrial
    /\ line = <<>>
    /\ nread = 0
    /\ listing = <<>>
    /\ all_files = <<>>
    /\ fi = 0

\* The locals of read_file as one record.
FileLocals ==
    [err |-> error, data |-> data,
     current_participant |-> current_participant,
     participant |-> participant, viewport |-> viewport, trial |-> trial]

\* The header and the custom fields are resolved.
FileHeader ==
    /\ mode = "file" /\ status = "start"
    /\ IF MissingCol(header, IndexColumns)
       THEN status' = "aborted" /\ error' = Raise("ValueError")
       ELSE IF MissingCol(header, custom_fields)
       THEN status' = "aborted" /\ error' = Raise("Exception")
       ELSE status' = "running" /\ error' = NoError
    /\ UNCHANGED <<mode, header, use_public_id, custom_fields, data,
                   current_participant, participant, viewport, trial, line,
                   nread, listing, all_files, fi>>

\* One line of the index file.
FileLine ==
    /\ mode = "file" /\ status = "running"
    /\ nread < MaxLines
    /\ \E row \in IndexRows :
        LET fs == ReadLine(header, use_public_id, custom_fields, FileLocals,
                           row)
        IN  /\ line' = row
            /\ error' = fs.err
            /\ status' = IF fs.err = NoError THEN status ELSE "aborted"
            /\ data' = fs.data
            /\ current_participant' = fs.current_participant
            /\ participant' = fs.participant
            /\ viewport' = fs.viewport
            /\ trial' = fs.trial
    /\ nread' = nread + 1
    /\ UNCHANGED <<mode, header, use_public_id, custom_fields, listing,
                   all_files, fi>>

\* The lines are exhausted: convert and return data.
FileReturn ==
    /\ mode = "file" /\ status = "running"
    /\ status' = "returned"
    /\ data' = Convert(data, "float64")
    /\ UNCHANGED <<mode, error, header, use_public_id, custom_fields,
                   current_participant, participant, viewport, trial, line,
                   nread, listing, all_files, fi>>

(***************************************************************************)
(* read_folder                                                             *)
(***************************************************************************)
\* ord(ch), for the characters of Strings.
Ord(ch) ==
    CASE ch = "$" -> 36
      [] ch = "." -> 46
      [] ch = "/" -> 47
      [] ch = "5" -> 53
      [] ch = "7" -> 55
      [] ch = ":" -> 58
      [] ch = "B" -> 66
      [] ch = "L" -> 76
      [] ch = "S" -> 83
      [] ch = "X" -> 88
      [] ch = "a" -> 97
      [] ch = "b" -> 98
      [] ch = "c" -> 99
      [] ch = "d" -> 100
      [] ch = "e" -> 101
      [] ch = "g" -> 103
      [] ch = "h" -> 104
      [] ch = "l" -> 108
      [] ch = "n" -> 110
      [] ch = "o" -> 111
      [] ch = "p" -> 112
      [] ch = "s" -> 115
      [] ch = "t" -> 116
      [] ch = "x" -> 120
      [] ch = "~" -> 126

\* a < b for two strings, as Python compares them (by code point).
RECURSIVE CharsLess(_, _)
CharsLess(a, b) ==
    IF b = <<>> THEN FALSE
    ELSE IF a = <<>> THEN TRUE
    ELSE IF Head(a) # Head(b) THEN Ord(Head(a)) < Ord(Head(b))
    ELSE CharsLess(Tail(a), Tail(b))
StrLess(a, b) == CharsLess(Chars[a], Chars[b])

\* The sorted list with one more name put in its place.
RECURSIVE Insert(_, _)
Insert(name, sorted) ==
    IF sorted = <<>> THEN <<name>>
    ELSE IF StrLess(name, Head(sorted)) THEN <<name>> \o sorted
    ELSE <<Head(sorted)>> \o Insert(name, Tail(sorted))

\* (Variant: the list is left in the order os.listdir gave.)
Unsorted(files) == files

\* all_files.sort()
RECURSIVE Sort(_)
Sort(files) ==
    IF files = <<>> THEN <<>> ELSE Insert(Head(files), Sort(Tail(files)))

\* The position of the last "." of a name, 0 if it has none.
LastDot(chars) ==
    IF \E j \in 1..Len(chars) : chars[j] = "."
    THEN CHOOSE j \in 1..Len(chars) :
            /\ chars[j] = "."
            /\ \A j2 \in (j + 1)..Len(chars) : chars[j2] # "."
    ELSE 0

\* os.path.splitext(fname): the extension starts at the last dot, unless
\* only dots come before it.
SplitExt(chars) ==
    LET dot == LastDot(chars)
    IN  IF dot > 0 /\ \E j \in 1..(dot - 1) : chars[j] # "."
        THEN [name |-> SubSeq(chars, 1, dot - 1),
              ext |-> SubSeq(chars, dot, Len(chars))]
        ELSE [name |-> chars, ext |-> <<>>]

\* str.lower()
LowerChar(ch) ==
    CASE ch = "X" -> "x"
      [] ch = "L" -> "l"
      [] ch = "S" -> "s"
      [] ch = "B" -> "b"
      [] OTHER -> ch
Lower(chars) == [j \in 1..Len(chars) |-> LowerChar(chars[j])]

\* name[:2] == "~$"
IsLockFile(fname) == Take(SplitExt(Chars[fname]).name, 2) = <<"~", "$">>

\* ext.lower() in [".xls", ".xlsx"]
IsExcel(fname) ==
    Lower(SplitExt(Chars[fname]).ext) \in
        {<<".", "x", "l", "s">>, <<".", "x", "l", "s", "x">>}

\* The files of the folder.
Folder ==
    [fname \in {"a.xlsx", "b.XLS", "c.xlsx", "B.xlsx", "d.xlsx", "e.xlsx",
                "~$a.xlsx", "n.txt"} |->
        CASE fname = "a.xlsx" -> Sheet(<<RCoordStr>>)
          [] fname = "b.XLS" -> Sheet(<<RScreenA, RCoord>>)
          [] fname = "c.xlsx" -> Sheet(<<RScreenB, RTarget>>)
          [] fname = "B.xlsx" -> Sheet(<<RScreen7, RCoord7>>)
          [] fname = "d.xlsx" -> Sheet(<<RCoord, RBadX>>)
          [] fname = "~$a.xlsx" -> Sheet(<<RScreenA, RCoord>>)
          [] OTHER -> Sheet(<<>>)]

\* The entry created for a new participant.
NewFolderEntry == [trials |-> <<>>, resolution |-> None, viewport |-> None]

\* "Create a new entry for the current participant, if the ID is new."
EnsureEntry(d, id) == IF id \notin DOMAIN d THEN Put(d, id, NewFolderEntry) ELSE d

\* (Variant: every file stores its viewport.)
StoreViewportAlways(entry, vp) ==
    [entry EXCEPT !.viewport = vp, !.resolution = vp]

\* "Store the viewport data (copy to resolution ...)"
StoreViewport(entry, vp) ==
    IF entry.viewport = None
    THEN [entry EXCEPT !.viewport = vp, !.resolution = vp]
    ELSE entry

\* The part of the loop body after the file was parsed.
Merge(d, id, vp, tr) ==
    LET d1 == EnsureEntry(d, id)
        d2 == [d1 EXCEPT ![id] = StoreViewport(@, vp)]
    IN  [d2 EXCEPT ![id].trials = Append(@, tr)]

\* One iteration of the file loop.
ReadFolderFile(fo, fname) ==
    IF IsLockFile(fname) THEN fo
    ELSE IF ~IsExcel(fname) THEN fo
    ELSE LET r == ReadSingleTrialFile(Folder[fname])
         IN  IF r.err # NoError THEN [fo EXCEPT !.err = r.err]
             ELSE [err |-> NoError,
                   data |-> Merge(fo.data, r.current_participant, r.viewport,
                                  r.trial),
                   current_participant |-> r.current_participant,
                   viewport |-> r.viewport,
                   trial |-> r.trial]

\* What os.listdir may return: the names of some files, in any order.
Listings ==
    UNION {{l \in [1..n -> DOMAIN Folder] :
                \A j1, j2 \in 1..n : j1 # j2 => l[j1] # l[j2]} :
           n \in 0..MaxListing}

(***************************************************************************)
(* read_folder, one file per step (mode = "folder").                       *)
(***************************************************************************)
InitFolder ==
    /\ mode = "folder"
    /\ status = "start"
    /\ error = NoError
    /\ header = <<>>
    /\ use_public_id = FALSE
    /\ custom_fields = <<>>
    /\ data = EmptyMap
    /\ current_participant = Unbound
    /\ participant = Unbound
    /\ viewport = Unbound
    /\ trial = EmptyTrial
    /\ line = <<>>
    /\ nread = 0
    /\ listing \in Listings
    /\ all_files = <<>>
    /\ fi = 0

\* The folder is listed and the list sorted.
FolderList ==
    /\ mode = "folder" /\ status = "start"
    /\ all_files' = Sort(listing)
    /\ status' = "running"
    /\ UNCHANGED <<mode, error, header, use_public_id, custom_fields, data,
                   current_participant, participant, viewport, trial, line,
                   nread, listing, fi>>

\* The locals of read_folder as one record.
FolderLocals ==
    [err |-> error, data |-> data,
     current_participant |-> current_participant, viewport |-> viewport,
     trial |-> trial]

\* One file of the list.
FolderFile ==
    /\ mode = "folder" /\ status = "running"
    /\ fi < Len(all_files)
    /\ LET fo == ReadFolderFile(FolderLocals, all_files[fi + 1])
       IN  /\ error' = fo.err
           /\ status' = IF fo.err = NoError THEN status ELSE "aborted"
           /\ data' = fo.data
           /\ current_participant' = fo.current_participant
           /\ viewport' = fo.viewport
           /\ trial' = fo.trial
    /\ fi' = fi + 1
    /\ UNCHANGED <<mode, header, use_public_id, custom_fields, participant,
                   line, nread, listing, all_files>>

\* The list is exhausted: convert and return data.
FolderReturn ==
    /\ mode = "folder" /\ status = "running"
    /\ fi = Len(all_files)
    /\ status' = "returned"
    /\ data' = Convert(data, "float32")
    /\ UNCHANGED <<mode, error, header, use_public_id, custom_fields,
                   current_participant, participant, viewport, trial, line,
                   nread, listing, all_files, fi>>

Init == InitTrial \/ InitFile \/ InitFolder

Next ==
    \/ TrialHeader \/ TrialRow \/ TrialReturn
    \/ FileHeader \/ FileLine \/ FileReturn
    \/ FolderList \/ FolderFile \/ FolderReturn

Spec == Init /\ [][Next]_vars

(***************************************************************************)
(* Properties of read_file.                                                *)
(***************************************************************************)
\* A step of FileLine.
LineStep == mode = "file" /\ status = "running" /\ nread' = nread + 1

\* The participant id of an index row (the column chosen by use_public_id).
LineId(row) == Field(header, row, ParticipantColumn(use_public_id))

\* A well-formed MouseView row whose Response is not a URL.
LocalLine(row) ==
    /\ WellFormed(header, row)
    /\ IsMouseView(Field(header, row, "Zone Type"))
    /\ ~IsUrl(Field(header, row, "Response"))

\* The file name of a row, and whether the trial folder holds it.
LineFile(row) == Field(header, row, "Response").s
MissingFileLine(row) == LocalLine(row) /\ ~IsFile(LineFile(row))
ExistingFileLine(row) == LocalLine(row) /\ IsFile(LineFile(row))

\* The trials of a participant, none if it has no entry.
TrialsOf(d, id) == IF id \in DOMAIN d THEN d[id].trials ELSE <<>>

\* The custom-field pairs of a row, in the order the fields were requested.
CustomPairs(row) ==
    [j \in 1..Len(custom_fields) |->
        FieldMsg(custom_fields[j], Field(header, row, custom_fields[j]))]

Range(seq) == {seq[j] : j \in 1..Len(seq)}
Last(seq) == seq[Len(seq)]

\* The same trial, whatever container holds its samples.
SameTrial(a, b) ==
    /\ a.msg = b.msg
    /\ a.time.v = b.time.v /\ a.x.v = b.x.v /\ a.y.v = b.y.v

\* d2 holds the trials of participant id in d1, at the same positions.
KeepsTrials(d1, d2, id) ==
    /\ id \in DOMAIN d2
    /\ Len(d2[id].trials) >= Len(TrialsOf(d1, id))
    /\ \A j \in 1..Len(TrialsOf(d1, id)) :
            SameTrial(d1[id].trials[j], d2[id].trials[j])

\* A trial without samples whose only messages are the row's custom pairs.
EmptyTrialOf(tr, row) ==
    /\ tr.time.v = <<>> /\ tr.x.v = <<>> /\ tr.y.v = <<>>
    /\ Len(tr.msg) = Len(custom_fields)
    /\ Range(tr.msg) = Range(CustomPairs(row))

\* C1: a well-formed MouseView row naming a local file that does not exist
\* never aborts the run, wherever it stands in the row stream, and appends
\* exactly one empty trial (no samples, only the row's custom-field pairs as
\* messages) to the row's participant.
C1_MissingFileAppendsEmptyTrial ==
    [][(LineStep /\ MissingFileLine(line')) =>
        /\ status' = "running"
        /\ KeepsTrials(data, data', LineId(line'))
        /\ Len(data'[LineId(line')].trials) =
                Len(TrialsOf(data, LineId(line'))) + 1
        /\ EmptyTrialOf(Last(data'[LineId(line')].trials), line')]_vars

\* The messages parsed from the file of a row (none if it is missing).
FileMessages(row) ==
    IF IsFile(LineFile(row))
    THEN ReadSingleTrialFile(TrialFolder[LineFile(row)]).trial.msg
    ELSE <<>>

\* C2: every trial appended by read_file starts with the custom-field pairs
\* (field, value in the index row), one per requested field and in the order
\* requested, followed by the messages of the trial file in their order.
C2_CustomFieldsLeadInRequestedOrder ==
    (/\ mode = "file" /\ status \in {"running", "returned"}
     /\ nread > 0 /\ LocalLine(line))
        => /\ TrialsOf(data, LineId(line)) # <<>>
           /\ Last(data[LineId(line)].trials).msg =
                    CustomPairs(line) \o FileMessages(line)

\* C3: a participant entry of read_file is never replaced: from one state
\* to the next every participant keeps its entry, every trial it holds at
\* the same position, and its resolution and viewport.
C3_ParticipantEntryNeverReplaced ==
    [][mode = "file" =>
        \A id \in DOMAIN data :
            /\ KeepsTrials(data, data', id)
            /\ data'[id].resolution = data[id].resolution
            /\ data'[id].viewport = data[id].viewport]_vars

\* What read_single_trial_file returns for the file of a row.
Parsed(row) == ReadSingleTrialFile(TrialFolder[LineFile(row)])

\* A row whose file exists and is parsed without an exception.
ParsedFileLine(row) == ExistingFileLine(row) /\ Parsed(row).err = NoError

\* The step appends the parsed trial of the row to the row's participant.
AppendsParsed(row) ==
    /\ status' = "running"
    /\ LineId(row) \in DOMAIN data'
    /\ Len(data'[LineId(row)].trials) =
            1 + (IF LineId(row) = current_participant
                 THEN Len(data[LineId(row)].trials) ELSE 0)
    /\ Last(data'[LineId(row)].trials).time = Parsed(row).trial.time
    /\ Last(data'[LineId(row)].trials).x = Parsed(row).trial.x
    /\ Last(data'[LineId(row)].trials).y = Parsed(row).trial.y

\* The step aborts on an identity error naming the file and the two ids,
\* and appends no trial.
AbortsOnIdentity(row, listed) ==
    /\ status' = "aborted"
    /\ error' = [type |-> "Exception",
                 args |-> <<LineFile(row), listed,
                            PyStr(Parsed(row).current_participant)>>]
    /\ \A id \in DOMAIN data' :
            Len(data'[id].trials) <= Len(TrialsOf(data, id))

\* C4 as stated: with either id column, a parsed file whose participant id
\* equals the row's identity field (the chosen id column) is appended
\* without error; otherwise the run aborts on an identity error naming the
\* file and the two conflicting ids, and nothing is appended.
C4_IdentityAgainstChosenId ==
    [][(LineStep /\ ParsedFileLine(line')) =>
        IF PyStr(Parsed(line').current_participant) = LineId(line').s
        THEN AppendsParsed(line')
        ELSE AbortsOnIdentity(line', LineId(line').s)]_vars

\* C4, amended: with either id column, the file's participant id is compared
\* with the row's Participant Private ID: if equal the trial is appended
\* under the row's chosen id; otherwise the run aborts on an identity error
\* naming the file, the row's chosen id and the file's id, and nothing is
\* appended.
C4_IdentityAgainstPrivateId ==
    [][(LineStep /\ ParsedFileLine(line')) =>
        IF PyStr(Parsed(line').current_participant) =
                Field(header, line', "Participant Private ID").s
        THEN AppendsParsed(line')
        ELSE AbortsOnIdentity(line', LineId(line').s)]_vars

\* C4 witness: with the public id as key, a file reporting another
\* participant than the row's private id has aborted the run.
C4_Witness ==
    /\ mode = "file" /\ use_public_id /\ status = "aborted"
    /\ error = [type |-> "Exception", args |-> <<"t7.xlsx", "A", "7">>]

(***************************************************************************)
(* Properties of read_folder.                                              *)
(***************************************************************************)
\* What read_single_trial_file returns for the j-th file of all_files.
ParsedFile(j) == ReadSingleTrialFile(Folder[all_files[j]])

\* A name ends with the characters `suffix`.
EndsWith(chars, suffix) ==
    /\ Len(chars) >= Len(suffix)
    /\ SubSeq(chars, Len(chars) - Len(suffix) + 1, Len(chars)) = suffix

\* An .xls or .xlsx file (in any case) that is not a lock file.
Eligible(fname) ==
    /\ \/ EndsWith(Lower(Chars[fname]), <<".", "x", "l", "s">>)
       \/ EndsWith(Lower(Chars[fname]), <<".", "x", "l", "s", "x">>)
    /\ Take(Chars[fname], 2) # <<"~", "$">>

\* Among the first n files of all_files, the eligible ones of participant id.
FilesOf(id, n) ==
    {j \in 1..n : Eligible(all_files[j]) /\ ParsedFile(j).current_participant = id}

\* C5 as stated: once a participant has an entry (its first file is merged),
\* its resolution and viewport are those of that first file, null included,
\* and no later file changes them.
C5_ViewportOfFirstFile ==
    [][mode = "folder" =>
        \A id \in DOMAIN data :
            /\ data'[id].viewport = data[id].viewport
            /\ data'[id].resolution = data[id].resolution]_vars

\* The viewport of the first of the first n files of participant id whose
\* parse returned one, None if there is none.
FirstViewport(id, n) ==
    LET having == {j \in FilesOf(id, n) : ParsedFile(j).viewport # None}
    IN  IF having = {} THEN None
        ELSE ParsedFile(CHOOSE j \in having : \A j2 \in having : j <= j2).viewport

\* C5, amended: the resolution and viewport of a participant are the viewport
\* returned by the first file processed for it (in sorted order) whose parse
\* returned a non-null viewport, and null while there is none; once they are
\* non-null no later file changes them.
C5_ViewportOfFirstFileHavingOne ==
    (mode = "folder" /\ status \in {"running", "returned"}) =>
        \A id \in DOMAIN data :
            /\ data[id].viewport = FirstViewport(id, fi)
            /\ data[id].resolution = FirstViewport(id, fi)

\* C5 witness: participant 5's first file (a.xlsx) has no viewport, its
\* second (b.XLS) has one, and the returned entry holds the second's.
C5_Witness ==
    /\ mode = "folder" /\ status = "returned"
    /\ all_files = <<"a.xlsx", "b.XLS", "c.xlsx">>
    /\ data[N(5)].viewport = S("800x600")

\* The trials of the eligible files of participant id among the first n
\* files, in the order of all_files.
RECURSIVE ExpectedTrials(_, _)
ExpectedTrials(id, n) ==
    IF n = 0 THEN <<>>
    ELSE ExpectedTrials(id, n - 1) \o
            (IF n \in FilesOf(id, n) THEN <<ParsedFile(n).trial>> ELSE <<>>)

\* The number of trials held by all participants.
RECURSIVE CountTrials(_, _)
CountTrials(d, ids) ==
    IF ids = {} THEN 0
    ELSE LET id == CHOOSE x \in ids : TRUE
         IN  Len(d[id].trials) + CountTrials(d, ids \ {id})

\* C6: the files are looped over in ascending order of their names whatever
\* order the listing had; each eligible file (.xls/.xlsx in any case, not a
\* lock file) gives exactly one trial and any other file none; a
\* participant's trials are in the order of their file names; so the number
\* of trials is the number of eligible files.
C6_FilesInSortedOrderOneTrialEach ==
    (mode = "folder" /\ status \in {"running", "returned"}) =>
        /\ Len(all_files) = Len(listing)
        /\ Range(all_files) = Range(listing)
        /\ \A j1, j2 \in 1..Len(all_files) :
                j1 < j2 => StrLess(all_files[j1], all_files[j2])
        /\ \A id \in DOMAIN data :
                /\ Len(data[id].trials) = Len(ExpectedTrials(id, fi))
                /\ \A j \in 1..Len(data[id].trials) :
                        SameTrial(data[id].trials[j], ExpectedTrials(id, fi)[j])
        /\ CountTrials(data, DOMAIN data) =
                Cardinality({j \in 1..fi : Eligible(all_files[j])})

\* C6 witness: a listing that is not sorted and holds a lock file was read
\* to the end, and participant 5 has the trials of its two files.
C6_Witness ==
    /\ mode = "folder" /\ status = "returned"
    /\ listing = <<"c.xlsx", "~$a.xlsx", "b.XLS">>
    /\ Len(data[N(5)].trials) = 2

(***************************************************************************)
(* Properties of read_single_trial_file.                                   *)
(***************************************************************************)
\* A step of TrialRow.
RowStep == mode = "trial" /\ status = "running" /\ nread' = nread + 1

\* A well-formed row of type "zone" whose zone name is "screen".
ScreenRow(row) ==
    /\ WellFormed(header, row)
    /\ Field(header, row, "type") = S("zone")
    /\ Field(header, row, "zone_name") = S("screen")

\* C7: the viewport is built from the width and height of the first screen
\* row; a later screen row never changes it; without one it stays null.
C7_ViewportFromFirstScreenRow ==
    [][RowStep =>
        IF viewport # None THEN viewport' = viewport
        ELSE IF ScreenRow(line')
        THEN viewport' = ViewportString(Field(header, line', "zone_width"),
                                        Field(header, line', "zone_height"))
        ELSE viewport' = None]_vars

(***************************************************************************)
(* Properties of all readers.                                              *)
(***************************************************************************)
\* The three sample sequences of a trial have one length.
EqualLengths(tr) ==
    Len(tr.time.v) = Len(tr.x.v) /\ Len(tr.x.v) = Len(tr.y.v)

\* C8: in a map returned by read_file or read_folder every trial has time,
\* x and y of one length, and no exception was raised in the run that
\* returned it (a run stopped by an unparsable value returns nothing).
C8_ReturnedTrialsHaveEqualLengths ==
    (mode \in {"file", "folder"} /\ status = "returned") =>
        /\ error = NoError
        /\ \A id \in DOMAIN data :
                \A j \in 1..Len(data[id].trials) :
                    EqualLengths(data[id].trials[j])

\* C8 witness: read_file returned a map holding a parsed trial with a sample
\* and a trial made for a missing file.
C8_Witness ==
    /\ mode = "file" /\ status = "returned"
    /\ S("5") \in DOMAIN data
    /\ Len(data[S("5")].trials) = 2
    /\ Len(data[S("5")].trials[1].time.v) = 1
    /\ Len(data[S("5")].trials[2].time.v) = 0

\* C9: a row whose number of fields is not the header's is skipped: read_file
\* keeps the current participant, the map and every trials list (also when
\* the row names a new participant), read_single_trial_file keeps samples,
\* messages, viewport and participant, and neither stops; so the rows after
\* it find the state they would find without it.
C9_MalformedRowHasNoEffect ==
    [][((LineStep \/ RowStep) /\ ~WellFormed(header, line')) =>
        UNCHANGED <<status, error, data, current_participant, participant,
                    viewport, trial>>]_vars

\* C9 witness: the first line of the index file was malformed and named a
\* participant; no entry was made and the run goes on.
C9_Witness ==
    /\ mode = "file" /\ status = "running" /\ nread = 1
    /\ Len(line) # Len(header) /\ line[1] = S("B")
    /\ data = EmptyMap /\ current_participant = None

\* C10: only a well-formed MouseView row with a local file name appends a
\* trial; a MouseView row with an https:// Response raises nothing and
\* records nothing; any row of another zone type leaves every trials list
\* as it was.
C10_OnlyLocalMouseViewRowsTouchTrials ==
    [][LineStep =>
        /\ \A id \in DOMAIN data' :
                Len(data'[id].trials) > Len(TrialsOf(data, id))
                    => LocalLine(line')
        /\ ~LocalLine(line') =>
                /\ status' = "running"
                /\ \A id \in DOMAIN data :
                        /\ id \in DOMAIN data'
                        /\ data'[id].trials = data[id].trials]_vars

(***************************************************************************)
(* Properties of the header resolution.                                    *)
(***************************************************************************)
\* The header lacks a column that the function called looks up.
HeaderLacksColumn ==
    \/ mode = "file" /\ \E j \in 1..Len(IndexColumns) :
                            ~HasCol(header, IndexColumns[j])
    \/ mode = "file" /\ \E j \in 1..Len(custom_fields) :
                            ~HasCol(header, custom_fields[j])
    \/ mode = "trial" /\ \E j \in 1..Len(SheetColumns) :
                            ~HasCol(header, SheetColumns[j])

\* C11: when the header lacks a required column or a requested custom field,
\* the run aborts before any data row is read: read_file has made no
\* participant entry and parsed no trial file, read_single_trial_file has
\* classified no row.
C11_MissingColumnAbortsBeforeRows ==
    HeaderLacksColumn =>
        /\ status \in {"start", "aborted"}
        /\ status = "aborted" => error.type \in {"ValueError", "Exception"}
        /\ nread = 0 /\ line = <<>>
        /\ data = EmptyMap
        /\ participant = Unbound
        /\ current_participant = None
        /\ trial = EmptyTrial

\* C11 witness: read_file was asked for the custom field "block", which the
\* header lacks, and has aborted without an entry.
C11_Witness ==
    /\ mode = "file" /\ status = "aborted"
    /\ header = IndexHeaderNoBlock
    /\ custom_fields = <<"cond", "block">>
    /\ error = Raise("Exception")
    /\ data = EmptyMap /\ nread = 0

(***************************************************************************)
(* Properties of the row classification of read_single_trial_file.         *)
(***************************************************************************)
\* The value of a column of the sheet row last read, after the step.
Cell(name) == Field(header, line', name)

\* The step appends one sample, taken from the row, and no message.
AppendsSample ==
    /\ trial'.time.v = Append(trial.time.v, PyFloat(Cell("time_stamp")))
    /\ trial'.x.v = Append(trial.x.v, PyFloat(Cell("x")))
    /\ trial'.y.v = Append(trial.y.v, PyFloat(Cell("y")))
    /\ trial'.msg = trial.msg

\* The step appends one message, the row's time stamp with the descriptor in
\* the order type, zone, x, y, width, height, and no sample.
AppendsMessage ==
    /\ trial'.msg =
          Append(trial.msg,
                 [kind |-> "row", label |-> "", val |-> None,
                  t |-> PyFloat(Cell("time_stamp")),
                  desc |-> <<PyStr(Cell("type")), PyStr(Cell("zone_name")),
                             PyStr(Cell("zone_x")), PyStr(Cell("zone_y")),
                             PyStr(Cell("zone_width")),
                             PyStr(Cell("zone_height"))>>])
    /\ trial'.time = trial.time /\ trial'.x = trial.x /\ trial'.y = trial.y

\* Samples plus messages of a trial.
Size(tr) == Len(tr.time.v) + Len(tr.msg)

\* C12: every well-formed data row that the parser gets through (no float()
\* raising) is classified by its type alone: a "mouseview" row appends one
\* element to each of time, x and y and no message, any other row appends
\* one message (time stamp, descriptor in the fixed order) and no sample;
\* a malformed row appends nothing; so samples plus messages count the
\* well-formed rows, each sequence in row order.
C12_EachRowIsOneSampleOrOneMessage ==
    [][(RowStep /\ status' = "running") =>
        IF ~WellFormed(header, line') THEN Size(trial') = Size(trial)
        ELSE /\ Size(trial') = Size(trial) + 1
             /\ IF Cell("type") = S("mouseview")
                THEN AppendsSample ELSE AppendsMessage]_vars

\* C12 witness: a scan of three rows, one of them malformed, has returned one
\* sample and one message.
C12_Witness ==
    /\ mode = "trial" /\ status = "returned" /\ nread = 3
    /\ Len(trial.time.v) = 1 /\ Len(trial.x.v) = 1 /\ Len(trial.y.v) = 1
    /\ Len(trial.msg) = 1
    /\ trial.msg[1].desc = <<"zone", "target", "0", "0", "50", "60">>

(***************************************************************************)
(* Properties of the participant identity of read_single_trial_file.       *)
(***************************************************************************)
\* No well-formed row was read yet (each one read left a sample or message).
NoRowYet == Size(trial) = 0

\* C13 as stated: the participant identity is the participant-id field of
\* the first (well-formed) data row, null included, and no later row
\* changes it.
C13_ParticipantOfFirstRow ==
    [][(RowStep /\ WellFormed(header, line')) =>
        IF NoRowYet
        THEN current_participant' = Cell("participant_id")
        ELSE current_participant' = current_participant]_vars

\* C13, amended: the participant identity is the participant-id field of the
\* first well-formed data row whose participant-id field is not null, and
\* null while there is none; once it is not null no later row changes it,
\* whatever id that row carries.
C13_ParticipantOfFirstRowHavingOne ==
    [][RowStep =>
        IF WellFormed(header, line') /\ current_participant = None
        THEN current_participant' = Cell("participant_id")
        ELSE current_participant' = current_participant]_vars

\* C13 witness: the first row (time stamp 4) had no participant id, the
\* second row was of participant 5, and 5 is the identity of the file.
C13_Witness ==
    /\ mode = "trial" /\ status = "running" /\ nread = 2
    /\ Len(trial.msg) >= 1 /\ trial.msg[1].t = 4
    /\ Len(line) = Len(header) /\ line[1] = N(5)
    /\ current_participant = N(5)

(***************************************************************************)
(* Properties of the keys of read_folder's map.                            *)
(***************************************************************************)
\* Some well-formed data row of the file reports the participant id.
ReportedBy(id, fname) ==
    \E j \in 1..Len(Folder[fname].rows) :
        /\ WellFormed(Folder[fname].header, Folder[fname].rows[j])
        /\ Field(Folder[fname].header, Folder[fname].rows[j],
                 "participant_id") = id

\* C14: every key of read_folder's map is a participant id reported by a
\* data row of an eligible file that was read; a file with a header and no
\* well-formed data row adds no entry under a null key.
C14_KeysAreReportedParticipants ==
    (mode = "folder" /\ status \in {"running", "returned"}) =>
        \A id \in DOMAIN data :
            /\ id # None
            /\ \E j \in 1..fi :
                    Eligible(all_files[j]) /\ ReportedBy(id, all_files[j])

====
